---- MODULE Spec2Model ----
(***************************************************************************)
(* Model of the Uwazi agent tools: get_all_templates, get_all_entities,    *)
(* create_template and analyze_existing_templates, as written in           *)
(* uwazi_agents/use_cases/uwazi_agent_interface.py ("interface") and in    *)
(* uwazi_agents/create_template.py ("create_template"), and of the retry   *)
(* helper robust_agent_run of create_template.py.                          *)
(*                                                                         *)
(* A Python str is a sequence of fragments (words, " ", ",", "\n", tags);  *)
(* concatenation is \o and the empty string is <<>>.  Other Python values  *)
(* are tagged records.  A Python dict is a function from its keys.         *)
(***************************************************************************)
EXTENDS Integers, Sequences, FiniteSets, TLC

VARIABLES url, user, password,   \* uwazi_agents.config
          op, variant, pc,       \* running tool, the module it comes from, position
          args,                  \* arguments of the running call
          cmsMode, cmsSize,      \* the CMS collaborator: behaviour, number of entities
          cmsLog,                \* calls made on the collaborator by the running call,
                                 \* each followed by "raise" when it raised
          entities, start_from,  \* locals of get_all_entities
          templates_raw,         \* what templates.get() answered to the running call
          fetchLog,              \* one record per uwazi.entities.get call
          cleaned_properties, validation_warnings, \* locals of create_template
          submitted,             \* template_dicts passed to uwazi.templates.set
          call_properties,       \* the caller's properties list as it was when create_template was called
          attempt, runLog,       \* robust_agent_run: loop variable, outcome of each agent.run call
          outcome, result        \* how the call ended and with which value

vars == <<url, user, password, op, variant, pc, args, cmsMode, cmsSize, cmsLog,
          entities, start_from, templates_raw, fetchLog, cleaned_properties,
          validation_warnings, submitted, call_properties, attempt, runLog,
          outcome, result>>

-----------------------------------------------------------------------------
(* Bounds *)

MaxProps == 2       \* longest properties list handed to create_template
MaxEntities == 5    \* most entities the CMS holds
MaxBatchSize == 2   \* largest batch_size argument
MaxRetries == 2     \* largest max_retries argument
MaxFetches == MaxEntities + 2  \* fetch calls allowed to a collaborator that never runs dry

-----------------------------------------------------------------------------
(* Python values *)

PyNone == [t |-> "NoneType"]
PyStr(s) == [t |-> "str", v |-> s]
PyInt(s) == [t |-> "int", v |-> s]
PyList(s) == [t |-> "list", v |-> s]
PyBool(s) == [t |-> "bool", v |-> s]

\* bool(x) for the values above
Truthy(x) ==
    CASE x.t = "NoneType" -> FALSE
      [] x.t = "str" -> x.v # <<>>
      [] x.t = "list" -> x.v # <<>>
      [] x.t = "int" -> x.v # <<"0">>
      [] x.t = "bool" -> x.v = <<"True">>

\* hash(x) succeeds
Hashable(x) == x.t # "list"

RECURSIVE Concat(_)
Concat(ss) == IF ss = <<>> THEN <<>> ELSE Head(ss) \o Concat(Tail(ss))

\* sep.join(parts)
RECURSIVE Join(_, _)
Join(sep, parts) ==
    IF parts = <<>> THEN <<>>
    ELSE IF Len(parts) = 1 THEN Head(parts)
    ELSE Head(parts) \o <<sep>> \o Join(sep, Tail(parts))

Min(a, b) == IF a < b THEN a ELSE b

-----------------------------------------------------------------------------
(* Exceptions *)

ExceptionClasses == {"ConnectionError", "TypeError", "AttributeError", "KeyError"}

Exc(type, msg) == [type |-> type, msg |-> msg]

CmsFailure == Exc("ConnectionError", <<"boom">>)

Catches_onlyKeyError(e) == e.type = "KeyError"

\* except Exception as e
Catches(e) == e.type \in ExceptionClasses

-----------------------------------------------------------------------------
(* Configuration *)

ConfigValues == {PyNone, PyStr(<<>>), PyStr(<<"set">>)}

\* the configurations: complete, one value None or empty, nothing configured
Configs ==
    {c \in [{"url", "user", "password"} -> ConfigValues] :
        \/ Cardinality({k \in DOMAIN c : c[k] # PyStr(<<"set">>)}) <= 1
        \/ \A k \in DOMAIN c : c[k] = PyNone}

CredentialsMissing_any == ~ (\E c \in {url, user, password} : Truthy(c))

\* not all([url, user, password])
CredentialsMissing == ~ (\A c \in {url, user, password} : Truthy(c))

Modules == {"interface", "create_template"}

-----------------------------------------------------------------------------
(* Results *)

StrResult(s) == [kind |-> "str", v |-> s]
\* json.dumps(d): a string that encodes d
JsonResult(d) == [kind |-> "json", v |-> d]
NoResult == [kind |-> "none"]

XmlDecl == "<?xml version=\"1.0\" encoding=\"UTF-8\"?>"

WhitespaceFragments == {"\n", " ", "  ", "    ", "      ", "        "}

\* the fragments of s that are not whitespace between tags
RECURSIVE XmlContent(_)
XmlContent(s) ==
    IF s = <<>> THEN <<>>
    ELSE IF Head(s) \in WhitespaceFragments THEN XmlContent(Tail(s))
    ELSE <<Head(s)>> \o XmlContent(Tail(s))

-----------------------------------------------------------------------------
(* fields *)

\* s.split(",")
RECURSIVE Split(_)
Split(s) ==
    IF \A i \in 1..Len(s) : s[i] # ","
    THEN <<s>>
    ELSE LET k == CHOOSE i \in 1..Len(s) : s[i] = "," /\ \A j \in 1..(i-1) : s[j] # ","
         IN <<SubSeq(s, 1, k - 1)>> \o Split(SubSeq(s, k + 1, Len(s)))

\* s.strip()
RECURSIVE Strip(_)
Strip(s) ==
    IF s = <<>> THEN s
    ELSE IF Head(s) \in WhitespaceFragments THEN Strip(Tail(s))
    ELSE IF s[Len(s)] \in WhitespaceFragments THEN Strip(SubSeq(s, 1, Len(s) - 1))
    ELSE s

RequestedFields_ignoreList(fields, all) == all

\* [f.strip() for f in fields.split(",")] if fields != "all" else <all>
RequestedFields(fields, all) ==
    IF fields # <<"all">>
    THEN LET parts == Split(fields) IN [i \in 1..Len(parts) |-> Strip(parts[i])]
    ELSE all

\* x in lst
In(x, lst) == \E i \in 1..Len(lst) : lst[i] = x

-----------------------------------------------------------------------------
(* get_all_entities: rendering *)

AllEntityFields == << <<"id">>, <<"sharedId">>, <<"title">>, <<"template">>, <<"metadata">> >>

\* f"{value}" for a metadata value
FormatValue(value) ==
    IF value.t = "list"
    THEN <<"[">> \o Join(", ", [i \in 1..Len(value.v) |-> <<"'">> \o value.v[i] \o <<"'">>]) \o <<"]">>
    ELSE IF value.t = "NoneType" THEN <<"None">>
    ELSE value.v

\* the xml_parts of one metadata item; metadata is a sequence of <<key, value>>
MetadataItemParts(module, key, value) ==
    IF module = "create_template" /\ value.t = "list"
    THEN << <<"      ", "<", key, ">">> >>
         \o [i \in 1..Len(value.v) |-> <<"        ", "<item>">> \o value.v[i] \o <<"</item>">>]
         \o << <<"      ", "</", key, ">">> >>
    ELSE << <<"      ", "<", key, ">">> \o FormatValue(value) \o <<"</", key, ">">> >>

MetadataParts(module, metadata) ==
    IF metadata = <<>> THEN <<>>
    ELSE << <<"    ", "<metadata>">> >>
         \o Concat([i \in 1..Len(metadata) |-> MetadataItemParts(module, metadata[i][1], metadata[i][2])])
         \o << <<"    ", "</metadata>">> >>

EntityFieldParts(requested_fields, entity, field, key) ==
    IF In(<<field>>, requested_fields) /\ key \in DOMAIN entity
    THEN << <<"    ", "<", field, ">">> \o entity[key] \o <<"</", field, ">">> >>
    ELSE <<>>

\* the xml_parts of one entity
EntityParts(module, requested_fields, entity) ==
    << <<"  ", "<entity>">> >>
    \o EntityFieldParts(requested_fields, entity, "id", "_id")
    \o EntityFieldParts(requested_fields, entity, "sharedId", "sharedId")
    \o EntityFieldParts(requested_fields, entity, "title", "title")
    \o EntityFieldParts(requested_fields, entity, "template", "template")
    \o (IF In(<<"metadata">>, requested_fields) /\ "metadata" \in DOMAIN entity
        THEN MetadataParts(module, entity["metadata"]) ELSE <<>>)
    \o << <<"  ", "</entity>">> >>

EntitiesRoot(module, ents) ==
    IF module = "create_template"
    THEN <<"<entities count=\"", ToString(Len(ents)), "\">">>
    ELSE <<"<entities>">>

\* the string get_all_entities returns once the loop has ended
RenderEntities(module, ents, fields) ==
    LET requested_fields == RequestedFields(fields, AllEntityFields)
    IN Join("\n", << <<XmlDecl>>, EntitiesRoot(module, ents) >>
                  \o Concat([i \in 1..Len(ents) |-> EntityParts(module, requested_fields, ents[i])])
                  \o << <<"</entities>">> >>)

\* the string get_all_entities returns without credentials
EntitiesMissingCredentials(module) ==
    IF module = "create_template"
    THEN <<XmlDecl, "<entities>", "<error>", "Missing credentials", "</error>", "</entities>">>
    ELSE <<XmlDecl, "<entities>", "</entities>">>

EntitiesExcept_partial(module, e) == RenderEntities(module, entities, <<"all">>)

\* the string the except clause of get_all_entities returns
EntitiesExcept(module, e) ==
    IF module = "create_template"
    THEN <<XmlDecl, "<entities>", "<error>">> \o e.msg \o <<"</error>", "</entities>">>
    ELSE <<XmlDecl, "<entities>", "</entities>">>


-----------------------------------------------------------------------------
(* The CMS collaborator *)

CmsModes == {"honest", "arbitrary"}

\* the metadata of the first entity: a list value and a scalar value, as <<key, value>>
SomeMetadata ==
    << <<"tags", PyList(<< <<"red">>, <<"blue">> >>)>>, <<"year", PyStr(<<"1999">>)>> >>

\* the entity the collaborator holds at position i (1-based): the first with
\* metadata, the second with empty metadata, the fourth with an empty title,
\* the others without metadata
EntityAt(i) ==
    LET base == [_id |-> <<"e", ToString(i)>>,
                 title |-> IF i = 4 THEN <<>> ELSE <<"T", ToString(i)>>]
    IN IF i = 1 THEN ("metadata" :> SomeMetadata) @@ base
       ELSE IF i = 2 THEN ("metadata" :> <<>>) @@ base
       ELSE base

\* an honest collaborator answers with positions start+1 .. start+batch_size of its cmsSize entities
HonestBatch(start, batch_size) ==
    LET k == IF cmsSize > start THEN Min(batch_size, cmsSize - start) ELSE 0
    IN [i \in 1..k |-> EntityAt(start + i)]

\* an arbitrary collaborator answers with any number of records, up to one more than asked
ArbitraryBatches(start, batch_size) ==
    {[i \in 1..k |-> EntityAt(start + i)] : k \in 0..(batch_size + 1)}

-----------------------------------------------------------------------------
(* Ending a call *)

Running(o) == op = o /\ outcome = "none"

Return(val) ==
    /\ pc' = "done"
    /\ outcome' = "returned"
    /\ result' = val

\* an exception e raised inside the try block whose except clause returns val
Raise(e, val) ==
    /\ pc' = "done"
    /\ IF Catches(e)
       THEN outcome' = "returned" /\ result' = val
       ELSE outcome' = "raised" /\ result' = [kind |-> "exception", v |-> e]

\* UwaziAdapter(user=user, password=password, url=url): fails only on an arbitrary collaborator
ConstructFails == {FALSE} \cup (IF cmsMode' = "arbitrary" THEN {TRUE} ELSE {})

-----------------------------------------------------------------------------
(* get_all_entities *)

FieldsArgs == { <<"all">>, <<"id">>, <<"id", ",", " ", "title">>, <<"bogus", ",", "title">> }

BatchSizes == 0..MaxBatchSize

BatchEndsLoop_le(batch, batch_size) == batch = <<>> \/ Len(batch) <= batch_size

\* if not batch: break ... if len(batch) < batch_size: break
BatchEndsLoop(batch, batch_size) == batch = <<>> \/ Len(batch) < batch_size

NextStartFrom_one(start, batch, batch_size) == start + 1

\* start_from += batch_size
NextStartFrom(start, batch, batch_size) == start + batch_size

FetchRecord(batch, raised) ==
    [start_from |-> start_from, batch_size |-> args.batch_size,
     accumulated |-> Len(entities), returned |-> batch, raised |-> raised]

\* the call up to the loop: credentials check, client construction, entities = [], start_from = 0
get_all_entities_call(m, fields, batch_size, mode, size) ==
    /\ pc = "idle"
    /\ op' = "get_all_entities" /\ variant' = m
    /\ args' = [fields |-> fields, batch_size |-> batch_size]
    /\ cmsMode' = mode /\ cmsSize' = size
    /\ entities' = <<>> /\ start_from' = 0 /\ fetchLog' = <<>>
    /\ IF CredentialsMissing
       THEN /\ cmsLog' = <<>>
            /\ Return(StrResult(EntitiesMissingCredentials(m)))
       ELSE \E fails \in ConstructFails :
              IF fails
              THEN /\ cmsLog' = <<"UwaziAdapter", "raise">>
                   /\ Raise(CmsFailure, StrResult(EntitiesExcept(m, CmsFailure)))
              ELSE /\ cmsLog' = <<"UwaziAdapter">>
                   /\ pc' = "loop" /\ outcome' = "none" /\ result' = NoResult
    /\ UNCHANGED <<attempt, runLog, call_properties, templates_raw, url, user, password, cleaned_properties, validation_warnings, submitted>>

\* one iteration of the while loop; when the loop ends, the rendering and the return
get_all_entities_fetch_batch(batch) ==
    /\ cmsLog' = Append(cmsLog, "entities.get")
    /\ fetchLog' = Append(fetchLog, FetchRecord(batch, FALSE))
    /\ IF batch = <<>>
       THEN /\ UNCHANGED <<entities, start_from>>
            /\ Return(StrResult(RenderEntities(variant, entities, args.fields)))
       ELSE /\ entities' = entities \o batch
            /\ IF BatchEndsLoop(batch, args.batch_size)
               THEN /\ UNCHANGED start_from
                    /\ Return(StrResult(RenderEntities(variant, entities', args.fields)))
               ELSE /\ start_from' = NextStartFrom(start_from, batch, args.batch_size)
                    /\ UNCHANGED <<pc, outcome, result>>

\* uwazi.entities.get raises
get_all_entities_fetch_raises ==
    /\ cmsLog' = cmsLog \o <<"entities.get", "raise">>
    /\ fetchLog' = Append(fetchLog, FetchRecord(<<>>, TRUE))
    /\ UNCHANGED <<entities, start_from>>
    /\ Raise(CmsFailure, StrResult(EntitiesExcept(variant, CmsFailure)))

get_all_entities_fetch ==
    /\ Running("get_all_entities") /\ pc = "loop"
    /\ \/ /\ cmsMode = "honest"
          /\ get_all_entities_fetch_batch(HonestBatch(start_from, args.batch_size))
       \/ /\ cmsMode = "arbitrary"
          /\ \E batch \in ArbitraryBatches(start_from, args.batch_size) :
               /\ Len(fetchLog) + 1 < MaxFetches \/ BatchEndsLoop(batch, args.batch_size)
               /\ get_all_entities_fetch_batch(batch)
       \/ /\ cmsMode = "arbitrary"
          /\ get_all_entities_fetch_raises
    /\ UNCHANGED <<attempt, runLog, call_properties, templates_raw, url, user, password, op, variant, args, cmsMode, cmsSize,
                   cleaned_properties, validation_warnings, submitted>>

-----------------------------------------------------------------------------
(* get_all_templates *)

AllTemplateFields == << <<"id">>, <<"name">>, <<"properties">>, <<"commonProperties">> >>

\* d.get(key, default)
Get(d, key, default) == IF key \in DOMAIN d THEN d[key] ELSE default

\* the xml_parts of one property of a template
PropertyParts(module, prop, custom) ==
    << <<"      ", "<property>">>,
       <<"        ", "<name>">> \o Get(prop, "name", <<>>) \o <<"</name>">>,
       <<"        ", "<type>">> \o Get(prop, "type", <<>>) \o <<"</type>">> >>
    \o (IF Get(prop, "label", <<>>) # <<>>
        THEN << <<"        ", "<label>">> \o prop["label"] \o <<"</label>">> >> ELSE <<>>)
    \o (IF module = "create_template" /\ custom /\ Truthy(Get(prop, "required", PyNone))
        THEN << <<"        ", "<required>">> \o prop["required"].v \o <<"</required>">> >> ELSE <<>>)
    \o (IF module = "create_template" /\ custom /\ Truthy(Get(prop, "filter", PyNone))
        THEN << <<"        ", "<filter>">> \o prop["filter"].v \o <<"</filter>">> >> ELSE <<>>)
    \o << <<"      ", "</property>">> >>

\* a properties or commonProperties section of a template
SectionParts(module, requested_fields, template, section) ==
    IF In(<<section>>, requested_fields)
    THEN LET props == Get(template, section, <<>>)
         IN << <<"    ", "<", section, ">">> >>
            \o Concat([i \in 1..Len(props) |-> PropertyParts(module, props[i], section = "properties")])
            \o << <<"    ", "</", section, ">">> >>
    ELSE <<>>

\* the xml_parts of one template
TemplateParts(module, requested_fields, template) ==
    << <<"  ", "<template>">> >>
    \o (IF In(<<"id">>, requested_fields)
        THEN << <<"    ", "<id>">> \o Get(template, "_id", <<>>) \o <<"</id>">> >> ELSE <<>>)
    \o (IF In(<<"name">>, requested_fields)
        THEN << <<"    ", "<name>">> \o Get(template, "name", <<>>) \o <<"</name>">> >> ELSE <<>>)
    \o SectionParts(module, requested_fields, template, "properties")
    \o SectionParts(module, requested_fields, template, "commonProperties")
    \o << <<"  ", "</template>">> >>

\* the string get_all_templates returns for the templates the collaborator answered
RenderTemplates(module, templates, fields) ==
    LET requested_fields == RequestedFields(fields, AllTemplateFields)
    IN Join("\n", << <<XmlDecl>>, <<"<templates>">> >>
                  \o Concat([i \in 1..Len(templates) |->
                               TemplateParts(module, requested_fields, templates[i])])
                  \o << <<"</templates>">> >>)

TemplatesMissingCredentials(module) ==
    IF module = "create_template"
    THEN <<XmlDecl, "<templates>", "<error>", "Missing credentials", "</error>", "</templates>">>
    ELSE <<XmlDecl, "<templates>", "</templates>">>

TemplatesExcept(module, e) ==
    IF module = "create_template"
    THEN <<XmlDecl, "<templates>", "<error>">> \o e.msg \o <<"</error>", "</templates>">>
    ELSE <<XmlDecl, "<templates>", "</templates>">>

PersonTemplate ==
    [_id |-> <<"t1">>, name |-> <<"Person">>, color |-> <<"#000000">>,
     properties |-> << [name |-> <<"full_name">>, type |-> <<"text">>,
                        label |-> <<"Full", " ", "Name">>, required |-> PyBool(<<"True">>)],
                       [name |-> <<"born">>, type |-> <<"date">>] >>,
     commonProperties |-> << [name |-> <<"title">>, type |-> <<"text">>, label |-> <<"Title">>] >>]

BareTemplate == [name |-> <<"Bare">>]

\* what uwazi.templates.get() may answer
TemplateStores == { <<>>, <<PersonTemplate>>, <<PersonTemplate, BareTemplate>> }

TemplateFieldsArgs ==
    { <<"all">>, <<"id", ",", "name">>, <<"name", ",", " ", "properties">>,
      <<"bogus", ",", "commonProperties">>, <<"all", ",", "bogus">> }

\* the whole tool: credentials check, client, uwazi.templates.get(), rendering
get_all_templates_call(m, fields, mode, answer) ==
    /\ pc = "idle"
    /\ op' = "get_all_templates" /\ variant' = m
    /\ args' = [fields |-> fields]
    /\ cmsMode' = mode /\ cmsSize' = 0
    /\ IF CredentialsMissing
       THEN /\ cmsLog' = <<>> /\ templates_raw' = <<>>
            /\ Return(StrResult(TemplatesMissingCredentials(m)))
       ELSE \E fails \in ConstructFails :
              IF fails
              THEN /\ cmsLog' = <<"UwaziAdapter", "raise">> /\ templates_raw' = <<>>
                   /\ Raise(CmsFailure, StrResult(TemplatesExcept(m, CmsFailure)))
              ELSE IF answer.raises
              THEN /\ cmsLog' = <<"UwaziAdapter", "templates.get", "raise">>
                   /\ templates_raw' = <<>>
                   /\ Raise(CmsFailure, StrResult(TemplatesExcept(m, CmsFailure)))
              ELSE /\ cmsLog' = <<"UwaziAdapter", "templates.get">>
                   /\ templates_raw' = answer.value
                   /\ Return(StrResult(RenderTemplates(m, answer.value, fields)))
    /\ UNCHANGED <<attempt, runLog, call_properties, url, user, password, entities, start_from, fetchLog,
                   cleaned_properties, validation_warnings, submitted>>

-----------------------------------------------------------------------------
(* analyze_existing_templates (create_template.py) *)

\* one line per custom property
AnalyzePropertyLine(prop) ==
    <<"  - ">> \o Get(prop, "label", <<"N/A">>) \o <<": ">> \o Get(prop, "type", <<"N/A">>)
    \o (IF Truthy(Get(prop, "required", PyNone)) THEN <<" (REQUIRED)">> ELSE <<>>)
    \o (IF Truthy(Get(prop, "filter", PyNone)) THEN <<" (FILTERABLE)">> ELSE <<>>)

AnalyzeTemplateParts(template) ==
    LET properties == Get(template, "properties", <<>>)
    IN << <<"\n", "--- Template: ">> \o Get(template, "name", <<"N/A">>) \o <<" (ID: ">>
            \o Get(template, "_id", <<"N/A">>) \o <<") ---">>,
          <<"Color: ">> \o Get(template, "color", <<"N/A">>),
          <<"Number of custom properties: ", ToString(Len(properties))>> >>
       \o (IF properties # <<>>
           THEN << <<"\n", "Custom Properties:">> >>
                \o [i \in 1..Len(properties) |-> AnalyzePropertyLine(properties[i])]
           ELSE <<>>)

AnalyzeSummary(templates) ==
    IF templates = <<>>
    THEN <<"No templates found in the database.">>
    ELSE Join("\n", << <<"Found ", ToString(Len(templates)), " template(s):", "\n">> >>
                    \o Concat([i \in 1..Len(templates) |-> AnalyzeTemplateParts(templates[i])]))

AnalyzeExcept(e) == <<"Error analyzing templates: ">> \o e.msg

analyze_existing_templates_call(mode, answer) ==
    /\ pc = "idle"
    /\ op' = "analyze_existing_templates" /\ variant' = "create_template"
    /\ args' = <<>>
    /\ cmsMode' = mode /\ cmsSize' = 0
    /\ IF CredentialsMissing
       THEN /\ cmsLog' = <<>> /\ templates_raw' = <<>>
            /\ Return(StrResult(<<"Error: Missing Uwazi credentials">>))
       ELSE \E fails \in ConstructFails :
              IF fails
              THEN /\ cmsLog' = <<"UwaziAdapter", "raise">> /\ templates_raw' = <<>>
                   /\ Raise(CmsFailure, StrResult(AnalyzeExcept(CmsFailure)))
              ELSE IF answer.raises
              THEN /\ cmsLog' = <<"UwaziAdapter", "templates.get", "raise">>
                   /\ templates_raw' = <<>>
                   /\ Raise(CmsFailure, StrResult(AnalyzeExcept(CmsFailure)))
              ELSE /\ cmsLog' = <<"UwaziAdapter", "templates.get">>
                   /\ templates_raw' = answer.value
                   /\ Return(StrResult(AnalyzeSummary(answer.value)))
    /\ UNCHANGED <<attempt, runLog, call_properties, url, user, password, entities, start_from, fetchLog,
                   cleaned_properties, validation_warnings, submitted>>

\* the answers of uwazi.templates.get() under a collaborator mode
TemplateAnswers(mode) ==
    {[raises |-> FALSE, value |-> ts] : ts \in TemplateStores}
    \cup (IF mode = "arbitrary" THEN {[raises |-> TRUE, value |-> <<>>]} ELSE {})

-----------------------------------------------------------------------------
(* create_template: the normalization pass *)

PyDict(d) == [t |-> "dict", v |-> d]

valid_property_fields_noType ==
    {"label", "name", "required", "showInCard", "filter", "defaultfilter",
     "prioritySorting", "noLabel", "style", "generatedId", "isCommonProperty"}

valid_property_fields ==
    {"label", "type", "name", "required", "showInCard", "filter", "defaultfilter",
     "prioritySorting", "noLabel", "style", "generatedId", "isCommonProperty"}

valid_property_types ==
    { <<"text">>, <<"markdown">>, <<"numeric">>, <<"date">>, <<"link">>, <<"select">>,
      <<"multiselect">>, <<"relationship">>, <<"nested">>, <<"image">>, <<"media">>,
      <<"preview">>, <<"geolocation">> }

InValidTypes_anyStr(x) == x.t = "str"

\* x in valid_property_types, for a hashable x
InValidTypes(x) == x.t = "str" /\ x.v \in valid_property_types

LowerFragment(f) ==
    CASE f = "Full" -> "full"
      [] f = "Name" -> "name"
      [] f = "Born" -> "born"
      [] f = "Title" -> "title"
      [] OTHER -> f

\* s.lower()
Lower(s) == [i \in 1..Len(s) |-> LowerFragment(s[i])]

\* s.replace(" ", "_")
ReplaceSpaces(s) == [i \in 1..Len(s) |-> IF s[i] = " " THEN "_" ELSE s[i]]

NoExc == Exc("none", <<>>)

Dropped_kept(w) ==
    [kind |-> "keep", exc |-> NoExc, prop |-> [key \in {"type"} |-> PyNone], warnings |-> w]

\* "continue": the record is skipped
Dropped(w) == [kind |-> "drop", exc |-> NoExc, prop |-> <<>>, warnings |-> w]
Kept(p, w) == [kind |-> "keep", exc |-> NoExc, prop |-> p, warnings |-> w]
Raised(e) == [kind |-> "raise", exc |-> e, prop |-> <<>>, warnings |-> <<>>]

Warn_indexZero(module, idx, text) ==
    IF module = "create_template"
    THEN << <<"Property at index ", "0">> \o text >>
    ELSE <<>>

\* validation_warnings.append(f"Property at index {idx} ..."): only create_template.py keeps warnings
Warn(module, idx, text) ==
    IF module = "create_template"
    THEN << <<"Property at index ", ToString(idx)>> \o text >>
    ELSE <<>>

\* the name derived from the label, create_template.py only
WithName(module, cleaned_prop, w) ==
    IF module = "create_template" /\ "name" \notin DOMAIN cleaned_prop
       /\ Truthy(cleaned_prop["label"])
    THEN IF cleaned_prop["label"].t # "str"
         THEN Raised(Exc("AttributeError", <<"'int' object has no attribute 'lower'">>))
         ELSE Kept(("name" :> PyStr(ReplaceSpaces(Lower(cleaned_prop["label"].v)))) @@ cleaned_prop, w)
    ELSE Kept(cleaned_prop, w)

CleanedProp_allKeys(prop) == prop.v

\* cleaned_prop = {key: value for key, value in prop.items() if key in valid_property_fields}
CleanedProp(prop) == [key \in DOMAIN prop.v \cap valid_property_fields |-> prop.v[key]]

\* one iteration of "for idx, prop in enumerate(properties)"
CleanProperty(module, idx, prop) ==
    IF prop.t # "dict"
    THEN Dropped(Warn(module, idx, <<" is not a dictionary, skipping">>))
    ELSE IF "type" \notin DOMAIN prop.v
    THEN Dropped(Warn(module, idx, <<" missing 'type' field, skipping">>))
    ELSE IF ~ Hashable(prop.v["type"])
    THEN Raised(Exc("TypeError", <<"unhashable type: 'list'">>))
    ELSE IF ~ InValidTypes(prop.v["type"])
    THEN Dropped(Warn(module, idx, <<" has invalid type '">> \o FormatValue(prop.v["type"])
                                    \o <<"', skipping">>))
    ELSE LET cleaned_prop == CleanedProp(prop)
         IN IF "label" \notin DOMAIN cleaned_prop
            THEN WithName(module, ("label" :> PyStr(<<>>)) @@ cleaned_prop,
                          Warn(module, idx, <<" missing 'label', using empty string">>))
            ELSE WithName(module, cleaned_prop, <<>>)

Gathered_prepend(cleaned, step) ==
    IF step.kind = "keep" THEN <<step.prop>> \o cleaned ELSE cleaned

\* cleaned_properties.append(cleaned_prop), which a skipped record does not reach
Gathered(cleaned, step) ==
    IF step.kind = "keep" THEN Append(cleaned, step.prop) ELSE cleaned

\* the for loop from index idx (0-based) on, given what it has gathered so far
RECURSIVE Normalize(_, _, _, _, _)
Normalize(module, properties, idx, cleaned, warnings) ==
    IF idx >= Len(properties)
    THEN [raised |-> FALSE, exc |-> NoExc, cleaned |-> cleaned, warnings |-> warnings]
    ELSE LET step == CleanProperty(module, idx, properties[idx + 1])
         IN IF step.kind = "raise"
            THEN [raised |-> TRUE, exc |-> step.exc, cleaned |-> cleaned, warnings |-> warnings]
            ELSE Normalize(module, properties, idx + 1, Gathered(cleaned, step),
                           warnings \o step.warnings)

CommonProperties_two ==
    << [label |-> PyStr(<<"Title">>), name |-> PyStr(<<"title">>),
        type |-> PyStr(<<"text">>), isCommonProperty |-> PyBool(<<"True">>)],
       [label |-> PyStr(<<"Date added">>), name |-> PyStr(<<"creationDate">>),
        type |-> PyStr(<<"date">>), isCommonProperty |-> PyBool(<<"True">>)] >>

CommonProperties ==
    << [label |-> PyStr(<<"Title">>), name |-> PyStr(<<"title">>),
        type |-> PyStr(<<"text">>), isCommonProperty |-> PyBool(<<"True">>)],
       [label |-> PyStr(<<"Date added">>), name |-> PyStr(<<"creationDate">>),
        type |-> PyStr(<<"date">>), isCommonProperty |-> PyBool(<<"True">>)],
       [label |-> PyStr(<<"Date modified">>), name |-> PyStr(<<"editDate">>),
        type |-> PyStr(<<"date">>), isCommonProperty |-> PyBool(<<"True">>)] >>

\* the keys of template_dict in the order the dictionary literal lists them
TemplateDictKeys == <<"name", "color", "entityViewPage", "properties", "commonProperties">>

TemplateDict_userOnly(name, color, cleaned) ==
    [name |-> name, color |-> color, entityViewPage |-> <<>>,
     properties |-> cleaned, commonProperties |-> <<>>]

TemplateDict(name, color, cleaned) ==
    [name |-> name, color |-> color, entityViewPage |-> <<>>,
     properties |-> cleaned, commonProperties |-> CommonProperties]

-----------------------------------------------------------------------------
(* create_template: inputs *)

\* marks a key that an input dictionary does not have; not a Python value
Absent == [t |-> "absent"]

EmptyDict == [key \in {} |-> PyNone]

Entry(key, value) == IF value.t = "absent" THEN EmptyDict ELSE key :> value

MkDict(type, label, name, extra) ==
    PyDict(Entry("type", type) @@ Entry("label", label) @@ Entry("name", name)
           @@ Entry("invalid_field", extra))

NotADict == PyStr(<<"not a dict">>)

FullName == PyStr(<<"Full", " ", "Name">>)

\* the records a caller may pass: not a dictionary; without type; with a type outside
\* the enum (unknown string, None, a list); with a type of the enum and a label that is
\* a string, empty, absent or not a string, with or without name and unrecognized key;
\* named like a common property
PropertyInputs ==
    { NotADict,
      MkDict(Absent, FullName, Absent, Absent),
      MkDict(PyStr(<<"bogus">>), FullName, Absent, Absent),
      MkDict(PyNone, Absent, Absent, Absent),
      MkDict(PyList(<< <<"text">> >>), FullName, Absent, Absent),
      MkDict(PyStr(<<"text">>), FullName, Absent, Absent),
      MkDict(PyStr(<<"text">>), Absent, Absent, PyStr(<<"should be removed">>)),
      MkDict(PyStr(<<"text">>), PyStr(<<>>), Absent, Absent),
      MkDict(PyStr(<<"text">>), PyInt(<<"5">>), Absent, Absent),
      MkDict(PyStr(<<"text">>), FullName, PyStr(<<"custom">>), PyStr(<<"should be removed">>)),
      MkDict(PyStr(<<"date">>), PyStr(<<"Born">>), Absent, Absent),
      MkDict(PyStr(<<"text">>), PyStr(<<"Title">>), PyStr(<<"title">>), Absent) }

PropertyLists == UNION {[1..n -> PropertyInputs] : n \in 0..MaxProps}

-----------------------------------------------------------------------------
(* create_template *)

ErrorDict(msg) == PyDict([error |-> msg])

\* a returned Python object
ValueResult(x) == [kind |-> "value", v |-> x]

CreateMissingCredentials(module) ==
    LET d == ErrorDict(<<"Missing required environment variables (UWAZI_URL, UWAZI_USER, UWAZI_PASSWORD)">>)
    IN IF module = "create_template" THEN JsonResult(d) ELSE ValueResult(d)

CreateExcept_noMessage(module, e) ==
    LET d == ErrorDict(<<"Error creating template">>)
    IN IF module = "create_template" THEN JsonResult(d) ELSE ValueResult(d)

\* the value the except clause of create_template returns
CreateExcept(module, e) ==
    LET d == ErrorDict(<<"Error creating template: ">> \o e.msg)
    IN IF module = "create_template" THEN JsonResult(d) ELSE ValueResult(d)

\* what uwazi.templates.set(language=language, template=template_dict) may answer
SubmitAnswers(mode, template_dict) ==
    {[raises |-> FALSE, value |-> PyDict(("_id" :> <<"new-id">>) @@ template_dict)]}
    \cup (IF mode = "arbitrary"
          THEN {[raises |-> TRUE, value |-> PyNone],
                [raises |-> FALSE, value |-> PyList(<<>>)],
                [raises |-> FALSE, value |-> ErrorDict(<<"rejected">>)]}
          ELSE {})

\* the call up to the loop: credentials check and client construction
create_template_call(m, name, properties, color, mode) ==
    /\ pc = "idle"
    /\ op' = "create_template" /\ variant' = m
    /\ args' = [name |-> name, properties |-> properties, color |-> color]
    /\ call_properties' = properties
    /\ cmsMode' = mode /\ cmsSize' = 0
    /\ cleaned_properties' = <<>> /\ validation_warnings' = <<>> /\ submitted' = <<>>
    /\ IF CredentialsMissing
       THEN /\ cmsLog' = <<>>
            /\ Return(CreateMissingCredentials(m))
       ELSE \E fails \in ConstructFails :
              IF fails
              THEN /\ cmsLog' = <<"UwaziAdapter", "raise">>
                   /\ Raise(CmsFailure, CreateExcept(m, CmsFailure))
              ELSE /\ cmsLog' = <<"UwaziAdapter">>
                   /\ pc' = "normalize" /\ outcome' = "none" /\ result' = NoResult
    /\ UNCHANGED <<attempt, runLog, templates_raw, url, user, password, entities, start_from, fetchLog>>

PropAfter_aliased(module, idx, prop) ==
    LET step == CleanProperty(module, idx, prop)
    IN IF step.kind = "keep" THEN PyDict(step.prop) ELSE prop

\* a record of the caller's list after its iteration: the loop reads prop and
\* builds cleaned_prop as a new dictionary; no statement assigns into prop
PropAfter(module, idx, prop) == prop

\* the caller's list after the loop: nothing is appended to or removed from properties
PropertiesAfter(module, properties) ==
    [i \in 1..Len(properties) |-> PropAfter(module, i - 1, properties[i])]

\* the for loop over properties
create_template_normalize ==
    /\ Running("create_template") /\ pc = "normalize"
    /\ LET n == Normalize(variant, args.properties, 0, <<>>, <<>>)
       IN /\ cleaned_properties' = n.cleaned
          /\ validation_warnings' = n.warnings
          /\ args' = [args EXCEPT !.properties = PropertiesAfter(variant, args.properties)]
          /\ IF n.raised
             THEN Raise(n.exc, CreateExcept(variant, n.exc))
             ELSE pc' = "submit" /\ UNCHANGED <<outcome, result>>
    /\ UNCHANGED <<attempt, runLog, call_properties, templates_raw, url, user, password,
                   op, variant, cmsMode, cmsSize, cmsLog,
                   entities, start_from, fetchLog, submitted>>

\* what create_template.py does with the answer: attach the warnings, json.dumps
ReturnSubmitted(module, value) ==
    IF module = "create_template"
    THEN IF validation_warnings # <<>>
         THEN IF value.t # "dict"
              THEN Raise(Exc("TypeError", <<"list indices must be integers or slices, not str">>),
                         CreateExcept(module, Exc("TypeError", <<"list indices must be integers or slices, not str">>)))
              ELSE Return(JsonResult(PyDict(("validation_warnings" :> validation_warnings) @@ value.v)))
         ELSE Return(JsonResult(value))
    ELSE Return(ValueResult(value))

\* template_dict, uwazi.templates.set(...), return
create_template_submit ==
    /\ Running("create_template") /\ pc = "submit"
    /\ LET template_dict == TemplateDict(args.name, args.color, cleaned_properties)
       IN /\ submitted' = Append(submitted, template_dict)
          /\ \E answer \in SubmitAnswers(cmsMode, template_dict) :
               IF answer.raises
               THEN /\ cmsLog' = cmsLog \o <<"templates.set", "raise">>
                    /\ Raise(CmsFailure, CreateExcept(variant, CmsFailure))
               ELSE /\ cmsLog' = Append(cmsLog, "templates.set")
                    /\ ReturnSubmitted(variant, answer.value)
    /\ UNCHANGED <<attempt, runLog, call_properties, templates_raw, url, user, password, op, variant, args, cmsMode, cmsSize,
                   entities, start_from, fetchLog, cleaned_properties, validation_warnings>>

-----------------------------------------------------------------------------
(* robust_agent_run *)

\* what agent.run(task) returns when it succeeds
AgentAnswer == <<"agent answer">>

\* what agent.run(task) raises when it fails
AgentFailure == Exc("ConnectionError", <<"agent failed">>)

\* f"Error after {max_retries} attempts: {str(e)}"
RetriesExhausted(max_retries, e) ==
    <<"Error after ", ToString(max_retries), " attempts: ">> \o e.msg

\* the call up to the loop: range(max_retries) is empty for max_retries <= 0, the
\* function then ends without a return statement and the caller gets None
robust_agent_run_call(max_retries) ==
    /\ pc = "idle"
    /\ op' = "robust_agent_run" /\ variant' = "create_template"
    /\ args' = [max_retries |-> max_retries]
    /\ attempt' = 0 /\ runLog' = <<>>
    /\ IF max_retries <= 0
       THEN Return(ValueResult(PyNone))
       ELSE pc' = "attempt" /\ outcome' = "none" /\ result' = NoResult
    /\ UNCHANGED <<call_properties, templates_raw, url, user, password, cmsMode, cmsSize, cmsLog,
                   entities, start_from, fetchLog, cleaned_properties,
                   validation_warnings, submitted>>

\* one iteration of "for attempt in range(max_retries)"
robust_agent_run_attempt ==
    /\ Running("robust_agent_run") /\ pc = "attempt"
    /\ \E succeeds \in BOOLEAN :
         /\ runLog' = Append(runLog, succeeds)
         /\ IF succeeds
            THEN UNCHANGED attempt /\ Return(StrResult(AgentAnswer))
            ELSE IF ~ Catches(AgentFailure)
            THEN /\ UNCHANGED attempt
                 /\ pc' = "done" /\ outcome' = "raised"
                 /\ result' = [kind |-> "exception", v |-> AgentFailure]
            ELSE IF attempt < args.max_retries - 1
            THEN attempt' = attempt + 1 /\ UNCHANGED <<pc, outcome, result>>
            ELSE /\ UNCHANGED attempt
                 /\ Return(StrResult(RetriesExhausted(args.max_retries, AgentFailure)))
    /\ UNCHANGED <<call_properties, templates_raw, url, user, password, op, variant, args,
                   cmsMode, cmsSize, cmsLog, entities, start_from, fetchLog,
                   cleaned_properties, validation_warnings, submitted>>

-----------------------------------------------------------------------------
(* The caller *)

\* the tool's result has been consumed; the next call starts from fresh locals
Done ==
    /\ pc = "done"
    /\ pc' = "idle" /\ op' = "none" /\ variant' = "none"
    /\ args' = <<>> /\ cmsMode' = "honest" /\ cmsSize' = 0 /\ cmsLog' = <<>>
    /\ entities' = <<>> /\ start_from' = 0 /\ fetchLog' = <<>>
    /\ cleaned_properties' = <<>> /\ validation_warnings' = <<>> /\ submitted' = <<>>
    /\ outcome' = "none" /\ result' = NoResult /\ templates_raw' = <<>>
    /\ call_properties' = <<>> /\ attempt' = 0 /\ runLog' = <<>>
    /\ UNCHANGED <<url, user, password>>

Init ==
    /\ \E c \in Configs : url = c["url"] /\ user = c["user"] /\ password = c["password"]
    /\ pc = "idle" /\ op = "none" /\ variant = "none"
    /\ args = <<>> /\ cmsMode = "honest" /\ cmsSize = 0 /\ cmsLog = <<>>
    /\ entities = <<>> /\ start_from = 0 /\ fetchLog = <<>>
    /\ cleaned_properties = <<>> /\ validation_warnings = <<>> /\ submitted = <<>>
    /\ outcome = "none" /\ result = NoResult /\ templates_raw = <<>>
    /\ call_properties = <<>> /\ attempt = 0 /\ runLog = <<>>

Call_get_all_entities ==
    \E m \in Modules, fields \in FieldsArgs, batch_size \in BatchSizes,
       mode \in CmsModes, size \in 0..MaxEntities :
        /\ mode = "arbitrary" => size = 0
        /\ get_all_entities_call(m, fields, batch_size, mode, size)

Call_get_all_templates ==
    \E m \in Modules, fields \in TemplateFieldsArgs, mode \in CmsModes :
        \E answer \in TemplateAnswers(mode) :
            get_all_templates_call(m, fields, mode, answer)

Call_analyze_existing_templates ==
    \E mode \in CmsModes :
        \E answer \in TemplateAnswers(mode) :
            analyze_existing_templates_call(mode, answer)

Call_create_template ==
    \E m \in Modules, properties \in PropertyLists, mode \in CmsModes :
        create_template_call(m, <<"Person">>, properties, <<"#000000">>, mode)

Call_robust_agent_run == \E max_retries \in 0..MaxRetries : robust_agent_run_call(max_retries)

Next ==
    \/ Call_robust_agent_run
    \/ robust_agent_run_attempt
    \/ Call_create_template
    \/ create_template_normalize
    \/ create_template_submit
    \/ Call_get_all_templates
    \/ Call_analyze_existing_templates
    \/ Call_get_all_entities
    \/ get_all_entities_fetch
    \/ Done

Spec == Init /\ [][Next]_vars

\* the while loop of a running get_all_entities makes its next uwazi.entities.get
\* call: what get_all_entities_fetch does to fetchLog
LoopIteration ==
    /\ Running("get_all_entities") /\ pc = "loop"
    /\ fetchLog' \in {Append(fetchLog, FetchRecord(batch, raised)) :
                        batch \in {HonestBatch(start_from, args.batch_size)}
                                  \cup ArbitraryBatches(start_from, args.batch_size),
                        raised \in BOOLEAN}

\* a running call goes on executing: the while loop takes its next iteration
FairSpec == Spec /\ WF_fetchLog(LoopIteration)


-----------------------------------------------------------------------------
(* Pagination loop of get_all_entities *)

InEntities == op = "get_all_entities"

\* the loop went on after fetch call i: another call was made or is about to be made
LoopWentOn(i) == i < Len(fetchLog) \/ (i = Len(fetchLog) /\ pc = "loop")

\* the loop ended with fetch call i: it is the last call and the tool has returned
LoopEndedAt(i) == i = Len(fetchLog) /\ pc = "done"

EmptyOrShort(r) == r.returned = <<>> \/ Len(r.returned) < r.batch_size

C2_EndsExactlyOnEmptyOrShort ==
    \A i \in 1..Len(fetchLog) :
        ~ fetchLog[i].raised =>
            /\ EmptyOrShort(fetchLog[i]) => LoopEndedAt(i)
            /\ ~ EmptyOrShort(fetchLog[i]) => LoopWentOn(i)

C2_FirstBatchEmpty ==
    (Len(fetchLog) >= 1 /\ ~ fetchLog[1].raised /\ fetchLog[1].returned = <<>>) =>
        /\ Len(fetchLog) = 1
        /\ entities = <<>>
        /\ outcome = "returned"
        /\ result = StrResult(RenderEntities(variant, <<>>, args.fields))

\* C2 as stated: the loop ends exactly when a batch is empty or has fewer than
\* batch_size records, no fetch follows such a batch, one more fetch follows every
\* batch of exactly batch_size records, and a first empty batch gives no entities
\* after exactly 1 fetch call.
C2_Original ==
    InEntities =>
        /\ C2_EndsExactlyOnEmptyOrShort
        /\ \A i \in 1..Len(fetchLog) :
              (~ fetchLog[i].raised /\ Len(fetchLog[i].returned) = fetchLog[i].batch_size)
                  => LoopWentOn(i)
        /\ C2_FirstBatchEmpty

\* C2 amended: as C2, but one more fetch follows every NON-EMPTY batch of exactly
\* batch_size records (with batch_size = 0 a batch of 0 records is empty and ends
\* the loop).
C2_Amended ==
    InEntities =>
        /\ C2_EndsExactlyOnEmptyOrShort
        /\ \A i \in 1..Len(fetchLog) :
              (~ fetchLog[i].raised /\ fetchLog[i].returned # <<>>
                 /\ Len(fetchLog[i].returned) = fetchLog[i].batch_size)
                  => LoopWentOn(i)
        /\ C2_FirstBatchEmpty

\* a full non-empty batch was followed by another fetch, which was short and ended the loop
C2_Witness ==
    /\ InEntities /\ pc = "done" /\ Len(fetchLog) = 2
    /\ ~ fetchLog[1].raised /\ Len(fetchLog[1].returned) = args.batch_size
    /\ args.batch_size >= 1
    /\ ~ fetchLog[2].raised /\ EmptyOrShort(fetchLog[2])

HonestRun == InEntities /\ cmsMode = "honest" /\ args.batch_size >= 1

\* C3: from an honest collaborator holding N entities, with batch_size b >= 1, the
\* loop accumulates exactly the N entities, once each and in order, in exactly
\* floor(N/b)+1 fetch calls.
C3_AccumulatesAllInOrder ==
    (HonestRun /\ pc = "done" /\ cmsLog # <<>>) =>
        /\ entities = [i \in 1..cmsSize |-> EntityAt(i)]
        /\ Len(fetchLog) = (cmsSize \div args.batch_size) + 1

\* batches of sizes [2, 2, 1] with batch_size 2: 5 records in 3 calls
C3_Witness ==
    /\ HonestRun /\ pc = "done" /\ args.batch_size = 2 /\ cmsSize = 5
    /\ Len(fetchLog) = 3 /\ Len(entities) = 5
    /\ Len(fetchLog[3].returned) = 1

\* C4: the first request uses offset 0 and every later request uses the previous
\* offset plus the number of records the previous batch returned, so that each
\* requested start_from equals the number of records accumulated so far, for
\* every collaborator.
C4_Original ==
    InEntities =>
        \A i \in 1..Len(fetchLog) :
            /\ i = 1 => fetchLog[i].start_from = 0
            /\ i > 1 => fetchLog[i].start_from
                          = fetchLog[i-1].start_from + Len(fetchLog[i-1].returned)
            /\ fetchLog[i].start_from = fetchLog[i].accumulated

HasFragment(s, f) == \E i \in 1..Len(s) : s[i] = f

FetchFailed ==
    /\ InEntities /\ pc = "done"
    /\ Len(fetchLog) >= 1 /\ fetchLog[Len(fetchLog)].raised

\* C5: when a fetch call fails, the caller receives an explicit failure result,
\* distinguishable from the result of a successful fetch of zero entities.
C5_Original ==
    FetchFailed =>
        /\ outcome = "returned"
        /\ HasFragment(result.v, "<error>")
        /\ XmlContent(result.v) # XmlContent(RenderEntities(variant, <<>>, args.fields))


-----------------------------------------------------------------------------
(* The tools as a whole *)

Finished(o) == op = o /\ pc = "done"

Tools == {"get_all_templates", "get_all_entities", "analyze_existing_templates",
          "create_template"}

SomeConfigMissing == \E c \in {url, user, password} : c = PyNone \/ c = PyStr(<<>>)

\* C6: with URL, user or password absent or empty, a tool returns before the CMS
\* client is constructed and makes no getTemplates, getEntities or
\* submitTemplate call.
C6_NoCmsCallWithoutCredentials ==
    (SomeConfigMissing /\ op \in Tools) =>
        /\ pc = "done"
        /\ cmsLog = <<>>
        /\ fetchLog = <<>>
        /\ submitted = <<>>

\* only the password is missing and create_template was asked to submit properties
C6_Witness ==
    /\ Finished("create_template") /\ args.properties # <<>>
    /\ Truthy(url) /\ Truthy(user) /\ ~ Truthy(password)
    /\ outcome = "returned"

ErrorShaped(r) == r.kind \in {"value", "json"} /\ r.v.t = "dict" /\ "error" \in DOMAIN r.v.v

\* C7: without credentials every tool returns a clearly tagged error payload,
\* distinguishable from what the same tool returns for a successful call
\* against a CMS holding no templates / no entities.
C7_Original ==
    (SomeConfigMissing /\ pc = "done") =>
        /\ op = "get_all_templates" =>
              /\ HasFragment(result.v, "<error>")
              /\ XmlContent(result.v) # XmlContent(RenderTemplates(variant, <<>>, args.fields))
        /\ op = "get_all_entities" =>
              /\ HasFragment(result.v, "<error>")
              /\ XmlContent(result.v) # XmlContent(RenderEntities(variant, <<>>, args.fields))
        /\ op = "create_template" => ErrorShaped(result)
        /\ op = "analyze_existing_templates" => result.v # AnalyzeSummary(<<>>)

-----------------------------------------------------------------------------
(* create_template: which records survive *)

\* domain/PropertyType.py
PropertyType ==
    { <<"text">>, <<"markdown">>, <<"numeric">>, <<"date">>, <<"link">>, <<"select">>,
      <<"multiselect">>, <<"relationship">>, <<"nested">>, <<"image">>, <<"media">>,
      <<"preview">>, <<"geolocation">> }

IsDictionary(prop) == prop.t = "dict"
HasType(prop) == "type" \in DOMAIN prop.v
TypeInEnum(prop) == prop.v["type"].t = "str" /\ prop.v["type"].v \in PropertyType

Survives(prop) == IsDictionary(prop) /\ HasType(prop) /\ TypeInEnum(prop)

\* the positions (1-based) of the input records that should survive, in order
SurvivorPositions(properties) ==
    LET Keep(i) == Survives(properties[i])
    IN SelectSeq([i \in 1..Len(properties) |-> i], Keep)

\* cleaned stems from the input record prop: same type, and the input's label and name
StemsFrom(cleaned, prop) ==
    /\ cleaned["type"] = prop.v["type"]
    /\ \A key \in {"label", "name"} :
          key \in DOMAIN prop.v => (key \in DOMAIN cleaned /\ cleaned[key] = prop.v[key])

ExactlyTheSurvivors(props, properties) ==
    LET pos == SurvivorPositions(properties)
    IN /\ Len(props) = Len(pos)
       /\ \A j \in 1..Len(props) : StemsFrom(props[j], properties[pos[j]])

\* C8: an input record is in the submitted template's properties if and only if
\* it is a dictionary, has a 'type' key and that type is one of the 13 types of
\* the enum; every other record is dropped.
C8_SurvivesIffValid ==
    (op = "create_template" /\ submitted # <<>>) =>
        \A k \in 1..Len(submitted) :
            ExactlyTheSurvivors(submitted[k].properties, args.properties)

\* one record of the input was dropped and the other one submitted
C8_Witness ==
    /\ op = "create_template" /\ Len(submitted) = 1
    /\ Len(args.properties) = 2 /\ Len(submitted[1].properties) = 1
    /\ ~ Survives(args.properties[1]) /\ Survives(args.properties[2])

\* the CMS is reachable and accepts what it is sent
CreateAccepted == Finished("create_template") /\ ~ SomeConfigMissing /\ cmsMode = "honest"

\* C9: an invalid property descriptor never aborts create_template: whatever mix
\* of malformed records the list holds, each record is dropped or kept on its
\* own, the template built from the remaining records is submitted, and the
\* result is not an error.
C9_Original ==
    CreateAccepted =>
        /\ Len(submitted) = 1
        /\ ExactlyTheSurvivors(submitted[1].properties, args.properties)
        /\ ~ ErrorShaped(result)

NormalizationDone ==
    op = "create_template" /\ (pc = "submit" \/ submitted # <<>>)

\* the reason that applies first to a record that does not survive
DropReason(prop) ==
    IF ~ IsDictionary(prop) THEN " is not a dictionary, skipping"
    ELSE IF ~ HasType(prop) THEN " missing 'type' field, skipping"
    ELSE " has invalid type '"

\* the warnings that name index idx (0-based)
WarningsAbout(idx) ==
    SelectSeq(validation_warnings,
              LAMBDA w : Len(w) >= 2 /\ w[1] = "Property at index " /\ w[2] = ToString(idx))

\* C10: every record the normalization pass drops gets exactly one warning, which
\* states the first reason that applies among not a dictionary, missing type,
\* invalid type.
C10_Original ==
    NormalizationDone =>
        \A i \in 1..Len(args.properties) :
            ~ Survives(args.properties[i]) =>
                /\ Len(WarningsAbout(i - 1)) = 1
                /\ HasFragment(WarningsAbout(i - 1)[1], DropReason(args.properties[i]))

-----------------------------------------------------------------------------
(* create_template: the submitted template *)

PositionOf(key, keys) == CHOOSE i \in 1..Len(keys) : keys[i] = key

CommonNamesAndTypes(cp) == [i \in 1..Len(cp) |-> <<cp[i]["name"].v, cp[i]["type"].v>>]

\* C11: every template payload submitted to the CMS has a commonProperties
\* sequence of exactly three descriptors, title/text, creationDate/date and
\* editDate/date in this order, each with isCommonProperty true and each once,
\* under a key of its own that follows the user properties, whatever the input
\* list holds (nothing, or records that are themselves named title).
C11_ThreeCommonProperties ==
    (op = "create_template" /\ submitted # <<>>) =>
        \A k \in 1..Len(submitted) :
            LET cp == submitted[k].commonProperties
            IN /\ CommonNamesAndTypes(cp) = << << <<"title">>, <<"text">> >>,
                                                << <<"creationDate">>, <<"date">> >>,
                                                << <<"editDate">>, <<"date">> >> >>
               /\ \A i \in 1..Len(cp) : cp[i]["isCommonProperty"] = PyBool(<<"True">>)
               /\ DOMAIN submitted[k] = {TemplateDictKeys[i] : i \in 1..Len(TemplateDictKeys)}
               /\ PositionOf("properties", TemplateDictKeys)
                      < PositionOf("commonProperties", TemplateDictKeys)
               /\ Len(submitted[k].properties) = Len(SurvivorPositions(args.properties))

NamedLikeCommon(p) ==
    "name" \in DOMAIN p /\ p["name"] \in {PyStr(<<"title">>), PyStr(<<"creationDate">>),
                                            PyStr(<<"editDate">>)}

\* a template was submitted whose user properties hold a record named title
C11_Witness ==
    /\ op = "create_template" /\ Len(submitted) = 1
    /\ \E j \in 1..Len(submitted[1].properties) : NamedLikeCommon(submitted[1].properties[j])

\* a template was submitted for the empty property list
C11_WitnessEmpty ==
    op = "create_template" /\ Len(submitted) = 1 /\ args.properties = <<>>

\* the submitted record out stems from the input record inp, which survives
Matches(out, inp) ==
    /\ Survives(inp)
    /\ StemsFrom(out, inp)
    /\ "label" \in DOMAIN out
    /\ "label" \notin DOMAIN inp.v => out["label"] = PyStr(<<>>)

\* out[j..] can be matched, in order, with records among inp[i..]
RECURSIVE IsSubsequenceFrom(_, _, _, _)
IsSubsequenceFrom(out, inp, j, i) ==
    IF j > Len(out) THEN TRUE
    ELSE IF i > Len(inp) THEN FALSE
    ELSE \/ Matches(out[j], inp[i]) /\ IsSubsequenceFrom(out, inp, j + 1, i + 1)
         \/ IsSubsequenceFrom(out, inp, j, i + 1)

\* C12: the surviving properties appear in the submitted template in the same
\* relative order as in the input list: the submitted sequence is a
\* subsequence of the input.
C12_StableOrder ==
    (op = "create_template" /\ submitted # <<>>) =>
        \A k \in 1..Len(submitted) :
            IsSubsequenceFrom(submitted[k].properties, args.properties, 1, 1)

\* two different records survived, a text property before a date property
C12_Witness ==
    /\ op = "create_template" /\ Len(submitted) = 1
    /\ Len(submitted[1].properties) = 2
    /\ submitted[1].properties[1]["type"] = PyStr(<<"text">>)
    /\ submitted[1].properties[2]["type"] = PyStr(<<"date">>)

\* C13: the number of user properties the normalization pass produces is at most
\* the input length, and equals it if and only if every input record is a
\* dictionary with a type from the enum.
C13_CountAtMostInput ==
    NormalizationDone =>
        /\ Len(cleaned_properties) <= Len(args.properties)
        /\ Len(cleaned_properties) = Len(args.properties)
              <=> \A i \in 1..Len(args.properties) : Survives(args.properties[i])

\* the pass ended with fewer properties than the two records it was given
C13_Witness ==
    /\ NormalizationDone /\ Len(args.properties) = 2
    /\ Len(cleaned_properties) = 1

\* both records of the input were kept
C13_WitnessAll ==
    /\ NormalizationDone /\ Len(args.properties) = 2
    /\ Len(cleaned_properties) = 2

AllowedKeys ==
    {"label", "type", "name", "required", "showInCard", "filter", "defaultfilter",
     "prioritySorting", "noLabel", "style", "generatedId", "isCommonProperty"}

HasUnrecognizedKey(prop) == IsDictionary(prop) /\ DOMAIN prop.v \ AllowedKeys # {}

IsLabelWarning(w) == HasFragment(w, " missing 'label', using empty string")

\* C14: every surviving property of a submitted template has only keys of the
\* allowed set, keeps the input value of every allowed key the input had, and
\* an unrecognized key of the input leaves no warning: the only warning a
\* surviving record can have is the one about its missing label.
C14_OnlyAllowedKeys ==
    (op = "create_template" /\ submitted # <<>>) =>
        \A k \in 1..Len(submitted) :
            LET props == submitted[k].properties
                pos == SurvivorPositions(args.properties)
            IN /\ Len(props) = Len(pos)
               /\ \A j \in 1..Len(props) :
                     LET inp == args.properties[pos[j]]
                     IN /\ DOMAIN props[j] \subseteq AllowedKeys
                        /\ \A key \in DOMAIN inp.v \cap AllowedKeys :
                              key \in DOMAIN props[j] /\ props[j][key] = inp.v[key]
                        /\ \A n \in 1..Len(WarningsAbout(pos[j] - 1)) :
                              IsLabelWarning(WarningsAbout(pos[j] - 1)[n])
                        /\ "label" \in DOMAIN inp.v => WarningsAbout(pos[j] - 1) = <<>>

\* a record with a label and an unrecognized key was submitted by create_template.py
C14_Witness ==
    /\ op = "create_template" /\ variant = "create_template" /\ Len(submitted) = 1
    /\ \E i \in 1..Len(args.properties) :
          /\ Survives(args.properties[i]) /\ HasUnrecognizedKey(args.properties[i])
          /\ "label" \in DOMAIN args.properties[i].v

-----------------------------------------------------------------------------
(* create_template: label and name of a surviving property *)

LabelWarnings(idx) == SelectSeq(WarningsAbout(idx), IsLabelWarning)

\* C15: every property accepted into a submitted template has a type from the
\* enum and a label key; a surviving record without a label gets label "" and
\* one 'missing label, using empty string' warning, a surviving record with a
\* label keeps it and gets no label warning.
C15_Original ==
    (op = "create_template" /\ submitted # <<>>) =>
        \A k \in 1..Len(submitted) :
            LET props == submitted[k].properties
                pos == SurvivorPositions(args.properties)
            IN /\ Len(props) = Len(pos)
               /\ \A j \in 1..Len(props) :
                     LET inp == args.properties[pos[j]]
                     IN /\ props[j]["type"].t = "str" /\ props[j]["type"].v \in PropertyType
                        /\ "label" \in DOMAIN props[j]
                        /\ "label" \notin DOMAIN inp.v =>
                              /\ props[j]["label"] = PyStr(<<>>)
                              /\ Len(LabelWarnings(pos[j] - 1)) = 1
                        /\ "label" \in DOMAIN inp.v =>
                              /\ props[j]["label"] = inp.v["label"]
                              /\ LabelWarnings(pos[j] - 1) = <<>>

HasNonEmptyLabel(prop) ==
    "label" \in DOMAIN prop.v /\ prop.v["label"].t = "str" /\ prop.v["label"].v # <<>>

HasEmptyOrNoLabel(prop) ==
    "label" \notin DOMAIN prop.v \/ prop.v["label"] = PyStr(<<>>)

\* C16: a surviving record without name and with a non-empty label gets as name
\* the label lower-cased with every space replaced by an underscore; a record
\* with a name keeps it; a record without name whose label is empty or absent
\* has no name.
C16_Original ==
    (op = "create_template" /\ submitted # <<>>) =>
        \A k \in 1..Len(submitted) :
            LET props == submitted[k].properties
                pos == SurvivorPositions(args.properties)
            IN /\ Len(props) = Len(pos)
               /\ \A j \in 1..Len(props) :
                     LET inp == args.properties[pos[j]]
                     IN IF "name" \in DOMAIN inp.v
                        THEN "name" \in DOMAIN props[j] /\ props[j]["name"] = inp.v["name"]
                        ELSE /\ HasNonEmptyLabel(inp) =>
                                  /\ "name" \in DOMAIN props[j]
                                  /\ props[j]["name"]
                                        = PyStr(ReplaceSpaces(Lower(inp.v["label"].v)))
                             /\ HasEmptyOrNoLabel(inp) => "name" \notin DOMAIN props[j]

\* the properties the pass produced, given to it again as a caller would
AsInput(cleaned) == [i \in 1..Len(cleaned) |-> PyDict(cleaned[i])]

SecondPass == Normalize(variant, AsInput(cleaned_properties), 0, <<>>, <<>>)

\* C17: normalization is idempotent: run on the user properties it produced,
\* the pass yields the same sequence of properties (labels, types and names
\* unchanged) and records no warnings.
C17_Idempotent ==
    NormalizationDone =>
        /\ ~ SecondPass.raised
        /\ SecondPass.cleaned = cleaned_properties
        /\ SecondPass.warnings = <<>>

\* the first pass of create_template.py defaulted a label, warned about it, and
\* derived a name for another record
C17_Witness ==
    /\ NormalizationDone /\ variant = "create_template"
    /\ Len(cleaned_properties) = 2
    /\ \E i \in 1..Len(args.properties) :
          Survives(args.properties[i]) /\ "label" \notin DOMAIN args.properties[i].v
    /\ \E i \in 1..Len(args.properties) :
          /\ Survives(args.properties[i]) /\ HasNonEmptyLabel(args.properties[i])
          /\ "name" \notin DOMAIN args.properties[i].v
    /\ validation_warnings # <<>>

-----------------------------------------------------------------------------
(* create_template: the submission *)

SubmissionRaised ==
    /\ op = "create_template" /\ Len(cmsLog) >= 2
    /\ cmsLog[Len(cmsLog) - 1] = "templates.set" /\ cmsLog[Len(cmsLog)] = "raise"

\* C18: when the submission call raises, create_template returns an
\* error-shaped result, a record with an 'error' key carrying the failure
\* message, and no exception reaches the caller.
C18_SubmissionFailureWrapped ==
    SubmissionRaised =>
        /\ pc = "done" /\ outcome = "returned"
        /\ ErrorShaped(result)
        /\ \A i \in 1..Len(CmsFailure.msg) :
              HasFragment(result.v.v["error"], CmsFailure.msg[i])

\* the template was handed to the CMS, which raised
C18_Witness == SubmissionRaised /\ Len(submitted) = 1

Submissions == Len(SelectSeq(cmsLog, LAMBDA c : c = "templates.set"))

\* C19: an invocation of create_template with credentials present submits its
\* template exactly once, after the whole list has been normalized, and never
\* retries; with credentials absent it submits zero times. Stated for a CMS
\* client that can be constructed and accepts what it is sent.
C19_Original ==
    (op = "create_template" /\ cmsMode = "honest") =>
        /\ Submissions <= 1
        /\ pc = "normalize" => Submissions = 0
        /\ pc = "done" => Submissions = (IF SomeConfigMissing THEN 0 ELSE 1)

-----------------------------------------------------------------------------
(* The fields allow-list of get_all_templates and get_all_entities *)

KnownTemplateFields == { <<"id">>, <<"name">>, <<"properties">>, <<"commonProperties">> }
KnownEntityFields == { <<"id">>, <<"sharedId">>, <<"title">>, <<"template">>, <<"metadata">> }

KnownFields == IF op = "get_all_templates" THEN KnownTemplateFields ELSE KnownEntityFields

\* the tokens of a comma-separated list, trimmed
Tokens(fields) == LET parts == Split(fields) IN [i \in 1..Len(parts) |-> Strip(parts[i])]

TokenSet(fields) == {Tokens(fields)[i] : i \in 1..Len(Tokens(fields))}

IsUnknownToken(t) == t \notin KnownFields /\ t # <<"all">>

\* the list without its i-th token
WithoutToken(fields, i) ==
    LET toks == Tokens(fields)
    IN Join(",", [j \in 1..(Len(toks) - 1) |-> IF j < i THEN toks[j] ELSE toks[j + 1]])

WithToken(fields, t) == fields \o <<",">> \o t

\* what the running tool returns for the records it has fetched when asked for fields
Rendered(fields) ==
    IF op = "get_all_templates"
    THEN RenderTemplates(variant, templates_raw, fields)
    ELSE RenderEntities(variant, entities, fields)

\* a call of one of the two XML tools has returned what it rendered
RenderedXml ==
    /\ op \in {"get_all_templates", "get_all_entities"} /\ pc = "done"
    /\ cmsLog # <<>> /\ ~ HasFragment(cmsLog, "raise")

HasRun(s, run) == \E i \in 1..(Len(s) - Len(run) + 1) : SubSeq(s, i, i + Len(run) - 1) = run

\* the opening tag of the element of a known field, as it starts a line of a record
FieldElement(field) ==
    IF op = "get_all_templates" /\ field = <<"id">> THEN <<"    ", "<id>">>
    ELSE IF op = "get_all_templates" /\ field = <<"name">> THEN <<"    ", "<name>">>
    ELSE IF field = <<"metadata">> THEN <<"    ", "<metadata>">>
    ELSE <<"    ", "<">> \o field \o <<">">>

\* an element of a known field appears only if its token is in the allow-list
C20_OnlyListedFields ==
    (RenderedXml /\ args.fields # <<"all">>) =>
        \A field \in KnownFields :
            HasRun(result.v, FieldElement(field)) => field \in TokenSet(args.fields)

\* fields="id,name" renders id and name of a template and no properties element
C20_IdAndName ==
    (RenderedXml /\ op = "get_all_templates" /\ args.fields = <<"id", ",", "name">>) =>
        /\ \A i \in 1..Len(templates_raw) :
              templates_raw[i] = PersonTemplate =>
                  /\ HasRun(result.v, <<"<id>", "t1", "</id>">>)
                  /\ HasRun(result.v, <<"<name>", "Person", "</name>">>)
        /\ ~ HasRun(result.v, <<"<", "properties", ">">>)
        /\ ~ HasFragment(result.v, "<property>")

\* C20 as stated: in the XML of get_all_templates and get_all_entities an element
\* of a known field appears only if the field's token is in the comma-separated
\* allow-list (tokens trimmed), adding or removing unknown tokens never changes
\* the output, and fields="id,name" renders id and name of a template and no
\* properties element.
C20_Original ==
    RenderedXml =>
        /\ C20_OnlyListedFields
        /\ C20_IdAndName
        /\ Rendered(WithToken(args.fields, <<"bogus">>)) = result.v
        /\ \A i \in 1..Len(Tokens(args.fields)) :
              IsUnknownToken(Tokens(args.fields)[i])
                  => Rendered(WithoutToken(args.fields, i)) = result.v

\* C20 amended: as C20, but adding or removing unknown tokens leaves the output
\* unchanged only as long as neither the fields string before the change nor
\* the one after it is the literal "all", which selects every known field
\* (while "all,bogus" is an allow-list that selects none).
C20_Amended ==
    RenderedXml =>
        /\ C20_OnlyListedFields
        /\ C20_IdAndName
        /\ args.fields # <<"all">> =>
              /\ Rendered(WithToken(args.fields, <<"bogus">>)) = result.v
              /\ \A i \in 1..Len(Tokens(args.fields)) :
                    (IsUnknownToken(Tokens(args.fields)[i])
                       /\ WithoutToken(args.fields, i) # <<"all">>)
                        => Rendered(WithoutToken(args.fields, i)) = result.v

\* templates were rendered for an allow-list that holds an unknown token next to
\* a known one
C20_Witness ==
    /\ RenderedXml /\ op = "get_all_templates" /\ templates_raw # <<>>
    /\ args.fields = <<"bogus", ",", "commonProperties">>
    /\ HasRun(result.v, <<"    ", "<", "commonProperties", ">">>)

\* a template holding properties was rendered for fields="id,name"
C20_WitnessIdName ==
    /\ RenderedXml /\ op = "get_all_templates" /\ args.fields = <<"id", ",", "name">>
    /\ \E i \in 1..Len(templates_raw) : templates_raw[i] = PersonTemplate

\* entities were rendered for an allow-list that holds an unknown token
C20_WitnessEntities ==
    /\ RenderedXml /\ op = "get_all_entities" /\ entities # <<>>
    /\ args.fields = <<"bogus", ",", "title">>

-----------------------------------------------------------------------------
(* The elements of the rendered XML *)

CountRuns(s, run) ==
    Cardinality({i \in 1..(Len(s) - Len(run) + 1) : SubSeq(s, i, i + Len(run) - 1) = run})

\* the field is selected by the fields argument of the running call
Selected(field) == args.fields = <<"all">> \/ field \in TokenSet(args.fields)

\* opening and closing tag of the elements of a template and of its properties
TemplateTags ==
    { <<"<id>", "</id>">>, <<"<name>", "</name>">>, <<"<type>", "</type>">>,
      <<"<label>", "</label>">>, <<"<required>", "</required>">>,
      <<"<filter>", "</filter>">> }

\* the names of the elements of an entity and of its metadata
EntityTags == {"id", "sharedId", "title", "template", "tags", "year"}

\* C21: a selected optional field that is absent from the record or has an empty
\* value is omitted entirely: the XML of get_all_templates and get_all_entities
\* never holds an element with empty content (an opening tag directly followed
\* by its closing tag) for a template, property or entity record.
C21_Original ==
    RenderedXml =>
        /\ \A tags \in TemplateTags : ~ HasRun(result.v, tags)
        /\ \A tag \in EntityTags : ~ HasRun(result.v, <<"<", tag, ">", "</", tag, ">">>)
        /\ ~ HasRun(result.v, <<"<item>", "</item>">>)

\* C22: whenever a field section is selected (properties or commonProperties for
\* templates, metadata for entities) its wrapper element appears in every
\* record, even when the record's section is empty or absent.
C22_Original ==
    RenderedXml =>
        /\ op = "get_all_templates" =>
              \A section \in {"properties", "commonProperties"} :
                  Selected(<<section>>) =>
                      CountRuns(result.v, <<"    ", "<", section, ">">>) = Len(templates_raw)
        /\ op = "get_all_entities" =>
              (Selected(<<"metadata">>) =>
                  CountRuns(result.v, <<"    ", "<metadata>">>) = Len(entities))

\* a sequence value: the wrapper named after the key and one item child per element
ExpectedSequence(key, items) ==
    <<"<", key, ">">>
    \o Concat([i \in 1..Len(items) |-> <<"\n", "        ", "<item>">> \o items[i] \o <<"</item>">>])
    \o <<"\n", "      ", "</", key, ">">>

\* a scalar value: a single element named after the key
ExpectedScalar(key, value) == <<"<", key, ">">> \o value \o <<"</", key, ">">>

\* C23: with metadata selected, every metadata value that is a sequence is
\* rendered as a wrapper element named after the key with exactly one item
\* child per element, in order, and every scalar value as a single child
\* element named after the key.
C23_Original ==
    (RenderedXml /\ op = "get_all_entities" /\ Selected(<<"metadata">>)) =>
        \A i \in 1..Len(entities) :
            "metadata" \in DOMAIN entities[i] =>
                \A j \in 1..Len(entities[i]["metadata"]) :
                    LET key == entities[i]["metadata"][j][1]
                        value == entities[i]["metadata"][j][2]
                    IN IF value.t = "list"
                       THEN HasRun(result.v, ExpectedSequence(key, value.v))
                       ELSE HasRun(result.v, ExpectedScalar(key, value.v))

-----------------------------------------------------------------------------
(* robust_agent_run: the retry loop *)

InRobust == op = "robust_agent_run"

AllFailed == \A i \in 1..Len(runLog) : ~ runLog[i]

\* C24: robust_agent_run calls agent.run at most max_retries times, makes no
\* call after the first one that succeeds and returns that call's result,
\* returns an error message string when all max_retries calls fail, and for
\* every max_retries value returns a result string or an error message.
C24_Original ==
    InRobust =>
        /\ Len(runLog) <= args.max_retries
        /\ \A i \in 1..(Len(runLog) - 1) : ~ runLog[i]
        /\ pc = "done" =>
              /\ outcome = "returned"
              /\ result.kind = "str"
              /\ ~ AllFailed => result.v = <<"agent answer">>
              /\ AllFailed =>
                    /\ Len(runLog) = args.max_retries
                    /\ HasFragment(result.v, "Error after ")

-----------------------------------------------------------------------------
(* Pagination loop of get_all_entities: termination *)

\* the collaborator holds cmsSize entities, honours start_from and returns at
\* most batch_size records, and batch_size is at least 1
HonestLoop == InEntities /\ cmsMode = "honest" /\ args.batch_size >= 1

C25_FetchBound ==
    HonestLoop => Len(fetchLog) <= (cmsSize \div args.batch_size) + 1

\* C25: for every batch_size >= 1 and a collaborator that holds finitely many
\* entities, honours start_from and returns at most batch_size records, the
\* pagination loop terminates, after at most floor(N/batch_size)+1 fetch calls.
C25_Terminates ==
    /\ [] C25_FetchBound
    /\ (HonestLoop /\ pc = "loop") ~> (pc = "done")

\* the loop ended after three or more fetch calls, as many as the bound allows
C25_Witness ==
    /\ HonestLoop /\ pc = "done" /\ Len(fetchLog) >= 3
    /\ Len(fetchLog) = (cmsSize \div args.batch_size) + 1

\* C26: if a fetch call fails after earlier batches were fetched, none of the
\* accumulated entities appears in the returned result: a result never holds
\* a partial entity list.
C26_NoPartialList ==
    (FetchFailed /\ entities # <<>>) =>
        /\ ~ HasFragment(result.v, "<entity>")
        /\ \A i \in 1..Len(entities) :
              /\ ~ HasRun(result.v, entities[i]["_id"])
              /\ entities[i]["title"] # <<>> => ~ HasRun(result.v, entities[i]["title"])

\* two batches had been accumulated when the third fetch call raised
C26_Witness ==
    /\ FetchFailed /\ Len(fetchLog) = 3 /\ Len(entities) >= 2
    /\ outcome = "returned"

-----------------------------------------------------------------------------
(* create_template: what the caller is told *)

SubmissionReturned ==
    /\ Finished("create_template") /\ cmsLog # <<>>
    /\ cmsLog[Len(cmsLog)] = "templates.set"

\* the result r carries the CMS answer v: it is v, or a record with every entry of v
Carries(r, v) ==
    /\ r.kind \in {"value", "json"}
    /\ r.v.t = v.t
    /\ \/ r.v = v
       \/ /\ v.t = "dict"
          /\ \A key \in DOMAIN v.v : key \in DOMAIN r.v.v /\ r.v.v[key] = v.v[key]

\* C27: whenever the submission call returns without raising, create_template
\* returns a non-error result that carries the CMS result, whatever shape that
\* result has and whether or not warnings were recorded: a created template is
\* never reported as an error.
C27_Original ==
    SubmissionReturned =>
        /\ outcome = "returned"
        /\ \E answer \in SubmitAnswers(cmsMode, submitted[Len(submitted)]) :
              ~ answer.raises /\ Carries(result, answer.value)

\* the pass drops the record: not a dictionary, no type, or a type outside the enum
IsDropped(prop) ==
    \/ ~ IsDictionary(prop)
    \/ ~ HasType(prop)
    \/ prop.v["type"].t # "list" /\ ~ TypeInEnum(prop)

\* C28: create_template submits the template even when every input property
\* was dropped or the list is empty: the payload then has an empty properties
\* sequence plus the three common properties, and the drops alone never turn
\* the result into an error.
C28_AllDroppedStillSubmits ==
    (CreateAccepted /\ \A i \in 1..Len(args.properties) : IsDropped(args.properties[i])) =>
        /\ Len(submitted) = 1
        /\ submitted[1].properties = <<>>
        /\ Len(submitted[1].commonProperties) = 3
        /\ ~ ErrorShaped(result)

\* both records of the input were dropped, with warnings, and the call has returned
C28_Witness ==
    /\ CreateAccepted /\ Len(args.properties) = 2 /\ variant = "create_template"
    /\ \A i \in 1..Len(args.properties) : IsDropped(args.properties[i])
    /\ Len(validation_warnings) = 2

\* the index (0-based) a warning names
IndexNamed(w) == CHOOSE idx \in 0..(Len(args.properties) - 1) : w[2] = ToString(idx)

\* C29: in create_template.py the warning list has at most one warning per
\* input record, each warning names the record's index in the original input
\* list, the warnings are in increasing index order, and a dropped record
\* never gets a missing-label warning.
C29_WarningsByIndex ==
    (op = "create_template" /\ variant = "create_template") =>
        /\ \A n \in 1..Len(validation_warnings) :
              LET w == validation_warnings[n]
              IN /\ w[1] = "Property at index "
                 /\ \E idx \in 0..(Len(args.properties) - 1) : w[2] = ToString(idx)
                 /\ LET prop == args.properties[IndexNamed(w) + 1]
                    IN IF IsLabelWarning(w)
                       THEN Survives(prop) /\ "label" \notin DOMAIN prop.v
                       ELSE IsDropped(prop) /\ HasFragment(w, DropReason(prop))
        /\ \A n1, n2 \in 1..Len(validation_warnings) :
              n1 < n2 => IndexNamed(validation_warnings[n1]) < IndexNamed(validation_warnings[n2])

\* the first record was dropped and the second, the first survivor, had no label
C29_Witness ==
    /\ op = "create_template" /\ variant = "create_template" /\ pc = "done"
    /\ Len(validation_warnings) = 2 /\ Len(cleaned_properties) = 1
    /\ ~ IsLabelWarning(validation_warnings[1]) /\ IsLabelWarning(validation_warnings[2])

====
